---- MODULE Spec2Model ----
(***************************************************************************)
(* A model of easyterm's command_line_options                              *)
(* (src/easyterm/commandlineopt.py).                                       *)
(*                                                                         *)
(* Strings are sequences of one-character strings, so that the tests the   *)
(* code makes on characters (startswith, lstrip, split, the type casts)    *)
(* are computed and not assumed.  Python indices are 0-based; every index  *)
(* of this module is 1-based: the Python index i is the position i+1.      *)
(* Python objects that can be shared (lists) live in a heap and are held   *)
(* by reference.                                                           *)
(***************************************************************************)
EXTENDS Integers, Sequences, FiniteSets, TLC

(***************************************************************************)
(* Bounds of the model.                                                    *)
(***************************************************************************)
\* longest command line (number of tokens after the program name)
MaxLen == 4
\* number of parse calls the caller makes in the repeated-call scenario
MaxCalls == 2
\* largest integer magnitude assigned in the round-trip scenarios
MaxInt == 2
\* longest list the caller grows a returned list value to
MaxItems == 2

VARIABLES cfg, argv, m, held, calls

vars == <<cfg, argv, m, held, calls>>

(***************************************************************************)
(* Characters and strings.                                                 *)
(***************************************************************************)
ascii_lowercase ==
    {"a","b","c","d","e","f","g","h","i","j","k","l","m",
     "n","o","p","q","r","s","t","u","v","w","x","y","z"}

ascii_uppercase ==
    {"A","B","C","D","E","F","G","H","I","J","K","L","M",
     "N","O","P","Q","R","S","T","U","V","W","X","Y","Z"}

accepted_option_chars == ascii_uppercase \cup ascii_lowercase

whitespace == {" ", "\t", "\n"}

digits == {"0","1","2","3","4","5","6","7","8","9"}

\* len(bit.split()): the number of maximal runs of non-whitespace characters
SplitLen(bit) ==
    Cardinality({j \in 1..Len(bit) :
                    /\ bit[j] \notin whitespace
                    /\ (j = 1 \/ bit[j-1] \in whitespace)})

\* bit.lstrip('-')
RECURSIVE lstrip(_)
lstrip(bit) ==
    IF Len(bit) > 0 /\ bit[1] = "-" THEN lstrip(Tail(bit)) ELSE bit

\* the test of the two list comprehensions that locate the option keys
IsOptionKey(bit) ==
    /\ Len(bit) > 0
    /\ bit[1] = "-"
    /\ SplitLen(bit) = 1
    /\ Len(bit) > 1
    /\ bit[2] \in accepted_option_chars

RECURSIVE IndicesFrom(_, _)
IndicesFrom(arglist, j) ==
    IF j > Len(arglist) THEN <<>>
    ELSE (IF IsOptionKey(arglist[j]) THEN <<j>> ELSE <<>>)
         \o IndicesFrom(arglist, j + 1)

\* opt_key_indices=[i for i, bit in enumerate(arglist) if ...]
KeyIndices(arglist) == IndicesFrom(arglist, 1)

(***************************************************************************)
(* Python values.  Every value is a record of one shape: t is the type's   *)
(* name; n the number of a bool (0/1), of an int, of a float (in tenths),  *)
(* or the heap reference of a list; s the characters of a str, or the name *)
(* of a non-finite float.                                                  *)
(***************************************************************************)
NoneV == [t |-> "NoneType", n |-> 0, s |-> <<>>]
BoolV(b) == [t |-> "bool", n |-> IF b THEN 1 ELSE 0, s |-> <<>>]
IntV(n) == [t |-> "int", n |-> n, s |-> <<>>]
FloatV(tenths) == [t |-> "float", n |-> tenths, s |-> <<>>]
InfV(sign) == [t |-> "float", n |-> sign, s |-> <<"i","n","f">>]
StrV(s) == [t |-> "str", n |-> 0, s |-> s]
ListV(ref) == [t |-> "list", n |-> ref, s |-> <<>>]

accepted_option_types == {"bool", "int", "float", "list", "str"}

\* type(default_opt[key]): CommandLineOptions.__getitem__ gives None for an
\* absent key
TypeOf(default_opt, key) ==
    IF key \in DOMAIN default_opt THEN default_opt[key].t ELSE "NoneType"

\* bool(value)
Truthy(v, heap) ==
    CASE v.t = "NoneType" -> FALSE
      [] v.t = "str" -> Len(v.s) > 0
      [] v.t = "list" -> Len(heap[v.n]) > 0
      [] v.t = "float" -> v.n # 0 \/ Len(v.s) > 0
      [] OTHER -> v.n # 0

DigitVal(c) ==
    CASE c = "0" -> 0 [] c = "1" -> 1 [] c = "2" -> 2 [] c = "3" -> 3
      [] c = "4" -> 4 [] c = "5" -> 5 [] c = "6" -> 6 [] c = "7" -> 7
      [] c = "8" -> 8 [] c = "9" -> 9

RECURSIVE NumVal(_)
NumVal(s) ==
    IF Len(s) = 0 THEN 0
    ELSE NumVal(SubSeq(s, 1, Len(s) - 1)) * 10 + DigitVal(s[Len(s)])

IsDigits(s) == Len(s) > 0 /\ \A j \in 1..Len(s) : s[j] \in digits

HasSign(s) == Len(s) > 0 /\ s[1] \in {"-", "+"}

Unsigned(s) == IF HasSign(s) THEN Tail(s) ELSE s

SignOf(s) == IF Len(s) > 0 /\ s[1] = "-" THEN -1 ELSE 1

CastError == [ok |-> FALSE, v |-> NoneV]

\* a cast that loses the sign
IntCast_unsigned(s) ==
    IF IsDigits(Unsigned(s))
    THEN [ok |-> TRUE, v |-> IntV(NumVal(Unsigned(s)))]
    ELSE CastError

\* int(s) for a str s: an optional sign and decimal digits; anything else
\* of the modelled alphabet is a ValueError
IntCast(s) ==
    IF IsDigits(Unsigned(s))
    THEN [ok |-> TRUE, v |-> IntV(SignOf(s) * NumVal(Unsigned(s)))]
    ELSE CastError

DotAt(s) == {j \in 1..Len(s) : s[j] = "."}

\* float(s) for a str s: an optional sign, then inf, or digits with at most
\* one '.'; finite values are kept in tenths, which covers the literals of
\* the modelled command lines (at most one fractional digit)
FloatCast(s) ==
    LET u == Unsigned(s)
        dots == DotAt(u)
    IN  IF u = <<"i","n","f">> THEN [ok |-> TRUE, v |-> InfV(SignOf(s))]
        ELSE IF dots = {} THEN
            IF IsDigits(u)
            THEN [ok |-> TRUE, v |-> FloatV(SignOf(s) * NumVal(u) * 10)]
            ELSE CastError
        ELSE IF Cardinality(dots) = 1 THEN
            LET d == CHOOSE j \in dots : TRUE
                ip == SubSeq(u, 1, d - 1)
                fp == SubSeq(u, d + 1, Len(u))
            IN  IF /\ Len(ip) + Len(fp) > 0
                   /\ Len(fp) <= 1
                   /\ \A j \in 1..Len(ip) : ip[j] \in digits
                   /\ \A j \in 1..Len(fp) : fp[j] \in digits
                THEN [ok |-> TRUE,
                      v |-> FloatV(SignOf(s) * (NumVal(ip) * 10 + NumVal(fp)))]
                ELSE CastError
        ELSE CastError

\* expected_type( arglist[i+1] ) for the scalar types other than bool
Cast(expected_type, s) ==
    CASE expected_type = "int" -> IntCast(s)
      [] expected_type = "float" -> FloatCast(s)
      [] OTHER -> [ok |-> TRUE, v |-> StrV(s)]

\* a boolean argument read by its truth, as bool(int(s)) or bool(s) would
BoolArg_truthy(s) ==
    IF s = <<"0">> THEN [ok |-> TRUE, v |-> BoolV(FALSE)]
    ELSE [ok |-> TRUE, v |-> BoolV(TRUE)]

\* the argument of a boolean option: '1' is True, '0' is False, anything
\* else is an error
BoolArg(s) ==
    IF s = <<"1">> THEN [ok |-> TRUE, v |-> BoolV(TRUE)]
    ELSE IF s = <<"0">> THEN [ok |-> TRUE, v |-> BoolV(FALSE)]
    ELSE CastError

\* pattern.search(main_string) for a pattern of plain letters: the pattern
\* occurs somewhere in the string
Search(w, main_string) ==
    \E j \in 1..(Len(main_string) - Len(w) + 1) :
        SubSeq(main_string, j, j + Len(w) - 1) = w

\* match_any_word(main_string, word_list, ignore_case=False)
match_any_word(main_string, word_list) ==
    \E j \in 1..Len(word_list) : Search(word_list[j], main_string)

(***************************************************************************)
(* The state of one call of command_line_options: its arguments, its       *)
(* locals, the heap of list objects, and what it wrote and warned.         *)
(* pc is the place the call has reached:                                   *)
(*   idle      no call is running                                          *)
(*   detect    the schema is checked; next, the positional regions         *)
(*   insert    next, the implied positional keys are inserted              *)
(*   main      in the main loop, ni option keys done                       *)
(*   fill      next, the default values are added                          *)
(*   help      next, the help and print_opt handling                       *)
(*   returned  the call returned opt                                       *)
(*   exited    the call ended in sys.exit()                                *)
(*   raised    the call raised the exception named by err                  *)
(***************************************************************************)
K_h == <<"h">>
K_print_opt == <<"p","r","i","n","t","_","o","p","t">>
K_help == <<"h","e","l","p">>

EmptyOpt == [k \in {} |-> NoneV]

\* an empty mapping from keys to texts
EmptyText == [k \in {} |-> ""]

CommandLineErrors ==
    {"type not accepted", "list not of strings", "positional keys absent",
     "positional before and after", "extra argument", "unexpected option",
     "no argument provided", "boolean value", "wrong type"}

IsCommandLineError(err) == err \in CommandLineErrors

Raise(f, e) == [f EXCEPT !.pc = "raised", !.err = e]

\* warnings.warn(...)
Warn(f, w) == [f EXCEPT !.warnings = Append(@, w)]

IdleFrame(heap, synonyms) ==
    [pc |-> "idle", err |-> "",
     default_opt |-> EmptyOpt, keys |-> <<>>,
     help_msg |-> "", positional_keys |-> <<>>, synonyms |-> synonyms,
     tolerate_extra |-> FALSE, tolerated_regexp |-> <<>>,
     warning_extra |-> TRUE, advanced_help_msg |-> EmptyText,
     arglist |-> <<>>, opt_key_indices |-> <<>>,
     positionals |-> "None", from_here |-> 0, up_to |-> 0,
     insert_these |-> <<>>,
     ni |-> 0, i |-> 0, opt_key |-> <<>>, expected_type |-> "NoneType",
     value |-> NoneV, opt |-> EmptyOpt,
     heap |-> heap, out |-> <<>>, warnings |-> <<>>]

\* the first key of the schema, in its order, that fails the check of its
\* value type, with the error it raises; 0 when all pass
BadKeys(keys, default_opt, heap) ==
    {j \in 1..Len(keys) :
        \/ default_opt[keys[j]].t \notin accepted_option_types
        \/ /\ default_opt[keys[j]].t = "list"
           /\ \E x \in 1..Len(heap[default_opt[keys[j]].n]) :
                  heap[default_opt[keys[j]].n][x].t # "str"}

FirstBadKey(keys, default_opt, heap) ==
    LET bad == BadKeys(keys, default_opt, heap)
    IN  IF bad = {} THEN 0 ELSE CHOOSE j \in bad : \A x \in bad : j <= x

\* command_line_options, from its entry to the check of default_opt and
\* positional_keys.  c holds the arguments of the call, args is sys.argv[1:],
\* heap and synonyms are the objects the call receives.
EnterCall(c, args, heap, synonyms) ==
    LET builtin == SelectSeq(<<K_h, K_print_opt>>,
                             LAMBDA k : k \notin DOMAIN c.default_opt)
        keys == c.keys \o builtin
        default_opt ==
            [k \in DOMAIN c.default_opt \cup {K_h, K_print_opt} |->
                IF k \in DOMAIN c.default_opt THEN c.default_opt[k]
                ELSE BoolV(FALSE)]
        f == [IdleFrame(heap, (K_help :> K_h) @@ synonyms) EXCEPT
                 !.pc = "detect",
                 !.default_opt = default_opt, !.keys = keys,
                 !.help_msg = c.help_msg,
                 !.positional_keys = c.positional_keys,
                 !.tolerate_extra = c.tolerate_extra,
                 !.tolerated_regexp = c.tolerated_regexp,
                 !.warning_extra = c.warning_extra,
                 !.advanced_help_msg = c.advanced_help_msg,
                 !.arglist = args]
        bad == FirstBadKey(keys, default_opt, heap)
    IN  IF bad # 0 THEN
            IF default_opt[keys[bad]].t \notin accepted_option_types
            THEN Raise([f EXCEPT !.opt_key = keys[bad]], "type not accepted")
            ELSE Raise([f EXCEPT !.opt_key = keys[bad]], "list not of strings")
        ELSE IF \E j \in 1..Len(c.positional_keys) :
                    c.positional_keys[j] \notin DOMAIN default_opt
        THEN Raise(f, "positional keys absent")
        ELSE f

\* positional arguments accepted after the options even when some stand
\* before them
AfterOptions_lenient(f, last_ki, last_t) ==
    [f EXCEPT
        !.pc = "insert",
        !.positionals = "after",
        !.from_here =
            IF last_t = "bool" THEN
                IF Len(f.arglist) > last_ki
                   /\ f.arglist[last_ki + 1] \in {<<"0">>, <<"1">>}
                THEN last_ki + 2
                ELSE last_ki + 1
            ELSE last_ki + 2,
        !.up_to = Len(f.arglist) + 1]

\* Positional arguments stand after the last option key, at last_ki, whose
\* key as written has the type last_t: an error when some stand before the
\* first option key too; else they start after the argument of that key.
AfterOptions(f, last_ki, last_t) ==
    LET arglist == f.arglist
        L == Len(arglist)
    IN  IF f.positionals = "before"
        THEN Raise(f, "positional before and after")
        ELSE [f EXCEPT
                !.pc = "insert",
                !.positionals = "after",
                !.from_here =
                    IF last_t = "bool" THEN
                        IF L > last_ki
                           /\ arglist[last_ki + 1] \in {<<"0">>, <<"1">>}
                        THEN last_ki + 2
                        ELSE last_ki + 1
                    ELSE last_ki + 2,
                !.up_to = L + 1]

\* The option keys are located and the region of the positional arguments
\* is found: before the first option key, or after the last one.
DetectPositionals(f) ==
    LET arglist == f.arglist
        L == Len(arglist)
        oki == KeyIndices(arglist)
        before == L > 0 /\ (Len(oki) = 0 \/ oki[1] # 1)
        f1 == IF before
              THEN [f EXCEPT !.opt_key_indices = oki,
                             !.positionals = "before",
                             !.from_here = 1,
                             !.up_to = IF Len(oki) = 0 THEN L + 1 ELSE oki[1]]
              ELSE [f EXCEPT !.opt_key_indices = oki]
    IN  IF L > 0 /\ Len(oki) > 0 THEN
            LET last_ki == oki[Len(oki)]
                last_k == lstrip(arglist[last_ki])
                last_t == TypeOf(f.default_opt, last_k)
            IN  IF last_ki < L - 1 /\ last_t # "list"
                THEN AfterOptions(f1, last_ki, last_t)
                ELSE [f1 EXCEPT !.pc = "insert"]
        ELSE [f1 EXCEPT !.pc = "insert"]

\* for i, value in enumerate(arglist[from_here:up_to]): the loop that pairs
\* the positional arguments with positional_keys; i counts from 0
RECURSIVE PositionalLoop(_, _)
PositionalLoop(f, i) ==
    IF i >= f.up_to - f.from_here THEN f
    ELSE IF Len(f.positional_keys) < i + 1 THEN
        IF f.tolerate_extra
        THEN Warn(f, "ignoring extra argument")
        ELSE Raise(f, "extra argument")
    ELSE
        LET key == f.positional_keys[i + 1]
            f1 == [f EXCEPT
                     !.insert_these = Append(@, <<f.from_here + i, key>>)]
        IN  IF TypeOf(f.default_opt, key) = "list" THEN f1
            ELSE PositionalLoop(f1, i + 1)

\* an insertion one place too far
InsertAt_after(arglist, i, x) ==
    SubSeq(arglist, 1, i) \o <<x>> \o SubSeq(arglist, i + 1, Len(arglist))

\* arglist.insert(i, x)
InsertAt(arglist, i, x) ==
    SubSeq(arglist, 1, i - 1) \o <<x>> \o SubSeq(arglist, i, Len(arglist))

\* for i, key_opt in insert_these[::-1]: arglist.insert(i, f"-{key_opt}")
RECURSIVE InsertAll(_, _, _)
InsertAll(arglist, insert_these, j) ==
    IF j = 0 THEN arglist
    ELSE InsertAll(InsertAt(arglist, insert_these[j][1],
                            <<"-">> \o insert_these[j][2]),
                   insert_these, j - 1)

\* The implied positional option keys are inserted in arglist, and the
\* option keys are located again.
InsertPositionals(f) ==
    LET after == IF Len(f.opt_key_indices) = 0 THEN "fill" ELSE "main"
    IN  IF f.positionals = "None" THEN [f EXCEPT !.pc = after]
        ELSE
            LET f1 == PositionalLoop(f, 0)
                arglist == InsertAll(f1.arglist, f1.insert_these,
                                     Len(f1.insert_these))
                oki == KeyIndices(arglist)
            IN  IF f1.pc = "raised" THEN f1
                ELSE [f1 EXCEPT
                        !.arglist = arglist,
                        !.opt_key_indices = oki,
                        !.pc = IF Len(oki) = 0 THEN "fill" ELSE "main"]

\* a new list object holding items
Alloc(heap, items) == Append(heap, items)

\* One iteration of the main loop: the option key at opt_key_indices[ni]
\* (counting ni from 0) is read with its argument(s) and stored in opt.
MainIteration(f) ==
    LET oki == f.opt_key_indices
        arglist == f.arglist
        ni == f.ni
        i == oki[ni + 1]
        gap == /\ ni > 0
               /\ oki[ni] + 1 < i - 1
               /\ TypeOf(f.default_opt, f.opt_key) # "list"
        f0 == IF gap /\ f.tolerate_extra
              THEN Warn(f, "ignoring extra argument") ELSE f
        bit == arglist[i]
        stripped == lstrip(bit)
        opt_key == IF stripped \in DOMAIN f.synonyms
                   THEN f.synonyms[stripped] ELSE stripped
        known == opt_key \in DOMAIN f.default_opt
        tolerated == \/ f.tolerate_extra
                     \/ /\ Len(f.tolerated_regexp) > 0
                        /\ match_any_word(opt_key, f.tolerated_regexp)
        f1 == [f0 EXCEPT !.i = i, !.opt_key = opt_key]
        f2 == IF known
              THEN [f1 EXCEPT !.expected_type = f.default_opt[opt_key].t]
              ELSE [(IF f.warning_extra
                     THEN Warn(f1, "accepting unexpected option") ELSE f1)
                    EXCEPT !.expected_type = "NoneType"]
        expected_type == f2.expected_type
        next_ki == IF Len(oki) > ni + 1 THEN oki[ni + 2] ELSE 0
        vi == i + 1
        noarg == \/ next_ki # 0 /\ next_ki = vi
                 \/ next_ki = 0 /\ Len(arglist) = i
        Store(g, v) ==
            [g EXCEPT !.value = v,
                      !.opt = (opt_key :> v) @@ g.opt,
                      !.ni = ni + 1,
                      !.pc = IF ni + 1 = Len(oki) THEN "fill" ELSE "main"]
    IN  IF gap /\ ~f.tolerate_extra THEN Raise(f, "extra argument")
        ELSE IF ~known /\ ~tolerated THEN Raise(f1, "unexpected option")
        ELSE IF expected_type # "list" THEN
            IF noarg THEN
                IF expected_type \in {"bool", "NoneType"}
                THEN Store(f2, BoolV(TRUE))
                ELSE Raise(f2, "no argument provided")
            ELSE
                LET et == IF expected_type = "NoneType" THEN "str"
                          ELSE expected_type
                    f3 == [f2 EXCEPT !.expected_type = et]
                    c == IF et = "bool" THEN BoolArg(arglist[i + 1])
                         ELSE Cast(et, arglist[i + 1])
                IN  IF c.ok THEN Store(f3, c.v)
                    ELSE IF et = "bool" THEN Raise(f3, "boolean value")
                    ELSE Raise(f3, "wrong type")
        ELSE
            LET last == IF next_ki # 0 THEN next_ki - 1 ELSE Len(arglist)
                items == [x \in 1..(last - i) |-> StrV(arglist[i + x])]
                ref == Len(f2.heap) + 1
            IN  Store([f2 EXCEPT !.heap = Alloc(@, items)], ListV(ref))

\* the default itself in place of a copy of it
CopyOf_alias(heap, v) == [heap |-> heap, v |-> v]

\* copy.copy(value): a list is copied into a new list object holding the
\* same items; the other values are immutable
CopyOf(heap, v) ==
    IF v.t = "list"
    THEN [heap |-> Alloc(heap, heap[v.n]), v |-> ListV(Len(heap) + 1)]
    ELSE [heap |-> heap, v |-> v]

\* for opt_key in default_opt: if not opt_key in opt: opt[opt_key]=copy.copy(..)
RECURSIVE FillLoop(_, _)
FillLoop(f, j) ==
    IF j > Len(f.keys) THEN f
    ELSE
        LET k == f.keys[j]
            f1 == [f EXCEPT !.opt_key = k]
        IN  IF k \in DOMAIN f.opt THEN FillLoop(f1, j + 1)
            ELSE
                LET c == CopyOf(f.heap, f.default_opt[k])
                IN  FillLoop([f1 EXCEPT !.heap = c.heap,
                                        !.opt = (k :> c.v) @@ f.opt],
                             j + 1)

\* no default added
FillDefaults_skip(f) == [f EXCEPT !.pc = "help"]

\* The default values which were not specified in the command line are added.
FillDefaults(f) == [FillLoop(f, 1) EXCEPT !.pc = "help"]

\* write(x) of colorprint, the output collaborator
Write(f, x) == [f EXCEPT !.out = Append(@, x)]

\* opt[key]: None when the key is absent
Get(opt, key) == IF key \in DOMAIN opt THEN opt[key] ELSE NoneV

\* The help message and the options are printed; the call exits when the
\* help was asked for, and returns opt otherwise.  The name advanced, read
\* when opt['h'] is a key of advanced_help_msg, is not defined: NameError.
PrintHelp(f) ==
    LET h == Get(f.opt, K_h)
        adv == DOMAIN f.advanced_help_msg
        f1 == IF Truthy(h, f.heap) THEN Write(f, f.help_msg) ELSE f
        f2 == IF Truthy(Get(f1.opt, K_print_opt), f1.heap)
              THEN Write(f1, "opt") ELSE f1
    IN  IF Truthy(h, f.heap) /\ adv # {} /\ h.t = "list"
        THEN Raise(f1, "TypeError")
        ELSE IF Truthy(h, f.heap) /\ adv # {} /\ h.t = "str" /\ h.s \in adv
        THEN Raise(f1, "NameError")
        ELSE IF K_h \in DOMAIN f2.opt /\ Truthy(h, f2.heap)
        THEN [f2 EXCEPT !.pc = "exited"]
        ELSE [f2 EXCEPT !.pc = "returned"]

\* the step the call takes at its place pc
StepOf(f) ==
    CASE f.pc = "detect" -> DetectPositionals(f)
      [] f.pc = "insert" -> InsertPositionals(f)
      [] f.pc = "main" -> MainIteration(f)
      [] f.pc = "fill" -> FillDefaults(f)
      [] f.pc = "help" -> PrintHelp(f)

Ended(f) == f.pc \in {"returned", "exited", "raised"}

RECURSIVE RunFrom(_)
RunFrom(f) == IF Ended(f) THEN f ELSE RunFrom(StepOf(f))

\* command_line_options(**c) with sys.argv[1:] = args, run to its end
command_line_options(c, args, heap, synonyms) ==
    RunFrom(EnterCall(c, args, heap, synonyms))

(***************************************************************************)
(* The callers.  A scenario is one caller: the arguments it passes to      *)
(* command_line_options (c.default_opt with the order of its keys, and the *)
(* keyword arguments), the heap holding the list defaults of its schema,   *)
(* and the tokens its command lines are made of.                           *)
(***************************************************************************)
K_i == <<"i">>
K_o == <<"o">>
K_k == <<"k">>
K_n == <<"n">>
K_s == <<"s">>
K_b == <<"b">>
K_fl == <<"f","l">>
K_al == <<"a","l">>
K_fb == <<"f","b">>
K_zz == <<"z","z">>
K_q == <<"q">>
K_map == <<"m","a","p">>

\* the option marker of a key
Dash(key) == <<"-">> \o key

T_in == <<"i","n">>
T_a == <<"a">>
T_0 == <<"0">>
T_1 == <<"1">>
T_x == <<"x">>
T_d == <<"d">>
T_dashdashhelp == <<"-","-","h","e","l","p">>

NoSynonyms == [k \in {} |-> <<>>]

BaseScenario ==
    [default_opt |-> EmptyOpt, keys |-> <<>>, heap |-> <<>>,
     help_msg |-> "Command line usage:...",
     positional_keys |-> <<K_i, K_o>>, synonyms |-> NoSynonyms,
     tolerate_extra |-> FALSE, tolerated_regexp |-> <<>>,
     warning_extra |-> TRUE, advanced_help_msg |-> EmptyText,
     tokens |-> {}]

Scenario(name) ==
    CASE name = "plain" ->
            [BaseScenario EXCEPT
                !.default_opt = (K_i :> StrV(<<>>)) @@ (K_o :> StrV(<<>>))
                                @@ (K_k :> FloatV(55)) @@ (K_b :> BoolV(FALSE))
                                @@ (K_fl :> ListV(1)),
                !.keys = <<K_i, K_o, K_k, K_b, K_fl>>,
                !.heap = << <<StrV(T_d)>> >>,
                !.synonyms = (K_al :> K_fl) @@ (K_fb :> K_b),
                !.tokens = {T_in, T_0, T_1, Dash(K_k), Dash(K_b), Dash(K_fl),
                            Dash(K_al), Dash(K_fb)}]
      [] name = "tolerant" ->
            [BaseScenario EXCEPT
                !.default_opt = (K_i :> StrV(<<>>)) @@ (K_k :> FloatV(55))
                                @@ (K_b :> BoolV(FALSE)),
                !.keys = <<K_i, K_k, K_b>>,
                !.positional_keys = <<K_i>>,
                !.tolerate_extra = TRUE,
                !.tokens = {T_in, T_1, Dash(K_k), Dash(K_b), Dash(K_zz)}]
      [] name = "regexp" ->
            [BaseScenario EXCEPT
                !.default_opt = (K_n :> IntV(3)) @@ (K_fl :> ListV(1)),
                !.keys = <<K_n, K_fl>>,
                !.heap = << <<>> >>,
                !.positional_keys = <<>>,
                !.tolerated_regexp = << <<"z">> >>,
                !.warning_extra = FALSE,
                !.tokens = {T_in, T_1, Dash(K_n), Dash(K_fl), Dash(K_zz),
                            Dash(K_q)}]
      [] name = "help" ->
            [BaseScenario EXCEPT
                !.default_opt = (K_i :> StrV(<<>>)) @@ (K_o :> StrV(<<>>)),
                !.keys = <<K_i, K_o>>,
                !.advanced_help_msg = (K_map :> "map message"),
                !.tokens = {K_map, T_0, Dash(K_h), Dash(K_help),
                            T_dashdashhelp, Dash(K_print_opt)}]
      [] name = "helpstr" ->
            [BaseScenario EXCEPT
                !.default_opt = (K_h :> StrV(<<>>)),
                !.keys = <<K_h>>,
                !.positional_keys = <<>>,
                !.advanced_help_msg = (K_map :> "map message"),
                !.tokens = {K_map, T_x, Dash(K_h)}]
      [] name = "listpos" ->
            [BaseScenario EXCEPT
                !.default_opt = (K_fl :> ListV(1)) @@ (K_o :> StrV(<<>>)),
                !.keys = <<K_fl, K_o>>,
                !.heap = << <<>> >>,
                !.positional_keys = <<K_fl, K_o>>,
                !.tokens = {T_a, T_x, Dash(K_o)}]
      [] name = "badtype" ->
            [BaseScenario EXCEPT
                !.default_opt = (K_i :> NoneV),
                !.keys = <<K_i>>,
                !.positional_keys = <<K_i>>,
                !.tokens = {T_a}]
      [] name = "badlist" ->
            [BaseScenario EXCEPT
                !.default_opt = (K_fl :> ListV(1)),
                !.keys = <<K_fl>>,
                !.heap = << <<StrV(T_a), IntV(1)>> >>,
                !.positional_keys = <<>>,
                !.tokens = {T_a}]
      [] name = "badpos" ->
            [BaseScenario EXCEPT
                !.default_opt = (K_k :> FloatV(55)),
                !.keys = <<K_k>>,
                !.tokens = {T_a}]
      [] name = "scalars" ->
            [BaseScenario EXCEPT
                !.default_opt = (K_b :> BoolV(FALSE)) @@ (K_n :> IntV(3))
                                @@ (K_k :> FloatV(55)) @@ (K_s :> StrV(<<>>)),
                !.keys = <<K_b, K_n, K_k, K_s>>,
                !.positional_keys = <<>>]
      [] name = "scalars_h" ->
            [BaseScenario EXCEPT
                !.default_opt = (K_s :> StrV(<<>>)) @@ (K_h :> BoolV(FALSE)),
                !.keys = <<K_s, K_h>>,
                !.positional_keys = <<>>]
      [] name = "repeat" ->
            [BaseScenario EXCEPT
                !.default_opt = (K_fl :> ListV(1)) @@ (K_b :> BoolV(FALSE)),
                !.keys = <<K_fl, K_b>>,
                !.heap = << <<StrV(T_d)>> >>,
                !.positional_keys = <<>>,
                !.tokens = {T_a, Dash(K_fl), Dash(K_b)}]

Scenarios ==
    {"plain", "tolerant", "regexp", "help", "helpstr", "listpos",
     "badtype", "badlist", "badpos", "scalars", "scalars_h", "repeat"}

\* the scenarios of the round trip: a schema of scalar defaults, run on the
\* canonical command lines of its assignments
RoundTrips == {"scalars", "scalars_h"}

DigitChar(d) ==
    CASE d = 0 -> "0" [] d = 1 -> "1" [] d = 2 -> "2" [] d = 3 -> "3"
      [] d = 4 -> "4" [] d = 5 -> "5" [] d = 6 -> "6" [] d = 7 -> "7"
      [] d = 8 -> "8" [] d = 9 -> "9"

\* str(n) for a natural number
RECURSIVE NatStr(_)
NatStr(n) ==
    IF n < 10 THEN <<DigitChar(n)>>
    ELSE NatStr(n \div 10) \o <<DigitChar(n % 10)>>

Abs(n) == IF n < 0 THEN -n ELSE n

\* the literal form of a scalar value: str(v), and 0 or 1 for a boolean
Literal(v) ==
    CASE v.t = "bool" -> NatStr(v.n)
      [] v.t = "int" ->
            (IF v.n < 0 THEN <<"-">> ELSE <<>>) \o NatStr(Abs(v.n))
      [] v.t = "float" ->
            (IF v.n < 0 THEN <<"-">> ELSE <<>>)
            \o (IF Len(v.s) > 0 THEN v.s
                ELSE NatStr(Abs(v.n) \div 10) \o <<".">>
                     \o NatStr(Abs(v.n) % 10))
      [] v.t = "str" -> v.s

\* the values of a type that the round trip assigns
ValuesOf(t) ==
    CASE t = "bool" -> {BoolV(FALSE), BoolV(TRUE)}
      [] t = "int" -> {IntV(n) : n \in (-MaxInt..MaxInt) \cup {10, -12}}
      [] t = "float" -> {FloatV(45), FloatV(-5), FloatV(100),
                         InfV(1), InfV(-1)}
      [] t = "str" -> {StrV(<<>>), StrV(T_in), StrV(<<"-","x">>),
                       StrV(<<"-","1">>), StrV(<<"-","a"," ","b">>),
                       StrV(<<"-">>)}

\* the assignments of a value of the matching type to the first j keys
RECURSIVE Assignments(_, _)
Assignments(c, j) ==
    IF j = 0 THEN {EmptyOpt}
    ELSE {(c.keys[j] :> v) @@ a :
            a \in Assignments(c, j - 1),
            v \in ValuesOf(c.default_opt[c.keys[j]].t)}

\* the canonical command line -k1 v1 -k2 v2 ... of an assignment
RECURSIVE CanonicalFrom(_, _, _)
CanonicalFrom(c, a, j) ==
    IF j > Len(c.keys) THEN <<>>
    ELSE <<Dash(c.keys[j]), Literal(a[c.keys[j]])>>
         \o CanonicalFrom(c, a, j + 1)

Canonical(c, a) == CanonicalFrom(c, a, 1)

\* the command lines of at most n tokens drawn from toks
Lines(toks, n) == UNION {[1..len -> toks] : len \in 0..n}

\* the command lines a scenario is run on
Argvs(name) ==
    IF name = "repeat"
    THEN {<<>>, <<Dash(K_fl)>>, <<Dash(K_fl), T_a>>, <<Dash(K_b)>>}
    ELSE IF name \in RoundTrips
    THEN {Canonical(Scenario(name), a) :
            a \in Assignments(Scenario(name), Len(Scenario(name).keys))}
    ELSE Lines(Scenario(name).tokens, MaxLen)

\* the number of calls the caller of a scenario makes
CallLimit(name) == IF name = "repeat" THEN MaxCalls ELSE 1

(***************************************************************************)
(* The state machine.  cfg names the scenario; argv is sys.argv[1:] of the *)
(* running (or last) call; m is the state of that call, with the heap;     *)
(* held holds the results the caller kept from earlier calls.              *)
(***************************************************************************)
Init ==
    /\ cfg \in Scenarios
    /\ argv = <<>>
    /\ m = IdleFrame(Scenario(cfg).heap, Scenario(cfg).synonyms)
    /\ held = <<>>
    /\ calls = 0

\* The caller calls command_line_options; the schema is checked.
Call ==
    /\ m.pc = "idle"
    /\ calls < CallLimit(cfg)
    /\ \E args \in Argvs(cfg) :
          /\ argv' = args
          /\ m' = EnterCall(Scenario(cfg), args, m.heap, m.synonyms)
    /\ calls' = calls + 1
    /\ UNCHANGED <<cfg, held>>

Detect ==
    /\ m.pc = "detect"
    /\ m' = DetectPositionals(m)
    /\ UNCHANGED <<cfg, argv, held, calls>>

Insert ==
    /\ m.pc = "insert"
    /\ m' = InsertPositionals(m)
    /\ UNCHANGED <<cfg, argv, held, calls>>

MainLoop ==
    /\ m.pc = "main"
    /\ m' = MainIteration(m)
    /\ UNCHANGED <<cfg, argv, held, calls>>

Fill ==
    /\ m.pc = "fill"
    /\ m' = FillDefaults(m)
    /\ UNCHANGED <<cfg, argv, held, calls>>

Help ==
    /\ m.pc = "help"
    /\ m' = PrintHelp(m)
    /\ UNCHANGED <<cfg, argv, held, calls>>

\* The caller keeps the returned result and goes on.
Keep ==
    /\ m.pc = "returned"
    /\ CallLimit(cfg) > 1
    /\ held' = Append(held, m.opt)
    /\ m' = IdleFrame(m.heap, m.synonyms)
    /\ UNCHANGED <<cfg, argv, calls>>

\* The caller appends an item to a list value of a result it holds.
Mutate ==
    /\ m.pc = "idle"
    /\ \E r \in 1..Len(held) : \E k \in DOMAIN held[r] :
          /\ held[r][k].t = "list"
          /\ Len(m.heap[held[r][k].n]) < MaxItems
          /\ m' = [m EXCEPT !.heap[held[r][k].n] = Append(@, StrV(T_x))]
    /\ UNCHANGED <<cfg, argv, held, calls>>

Next ==
    \/ Call
    \/ Detect
    \/ Insert
    \/ MainLoop
    \/ Fill
    \/ Help
    \/ Keep
    \/ Mutate

Spec == Init /\ [][Next]_vars

(***************************************************************************)
(* What the caller sees of a call.                                         *)
(***************************************************************************)
\* a value as the caller reads it: a list by its items, not its reference
ViewVal(v, heap) ==
    [t |-> v.t,
     n |-> IF v.t = "list" THEN 0 ELSE v.n,
     s |-> v.s,
     items |-> IF v.t = "list" THEN heap[v.n] ELSE <<>>]

ViewOpt(opt, heap) == [k \in DOMAIN opt |-> ViewVal(opt[k], heap)]

\* how a call ended: returned (with the mapping), exited or raised (with
\* the error), and what it wrote
Outcome(f) ==
    [pc |-> f.pc,
     err |-> f.err,
     opt |-> IF f.pc = "returned" THEN ViewOpt(f.opt, f.heap)
             ELSE ViewOpt(EmptyOpt, f.heap),
     out |-> f.out]

(***************************************************************************)
(* The command line as it was given, read as the specification reads it.   *)
(***************************************************************************)
\* the elements of a sequence
Range(q) == {q[j] : j \in 1..Len(q)}

\* the arguments of the first call, which every scenario starts from
FirstCall == calls = 1 /\ held = <<>> /\ m.pc # "idle"

\* the canonical key of a key as written
Resolve(key) == IF key \in DOMAIN m.synonyms THEN m.synonyms[key] ELSE key

\* the canonical key of an option marker
KeyOf(bit) == Resolve(lstrip(bit))

\* the positions of the option markers of the command line
Markers == Range(KeyIndices(argv))

\* the first option marker after position p, or one past the end
NextMarker(p) ==
    LET later == {q \in Markers : q > p}
    IN  IF later = {} THEN Len(argv) + 1
        ELSE CHOOSE q \in later : \A x \in later : q <= x

\* the last position of the value(s) of the option marker at p: all the
\* tokens up to the next marker for a list, a following 0 or 1 for a
\* boolean, the following token for any other key
OwnValueEnd(p) ==
    LET t == TypeOf(m.default_opt, KeyOf(argv[p]))
    IN  IF t = "list" THEN NextMarker(p) - 1
        ELSE IF NextMarker(p) = p + 1 THEN p
        ELSE IF t = "bool" /\ argv[p + 1] \notin {T_0, T_1} THEN p
        ELSE p + 1

\* the positions of the tokens given without an explicit key
Keyless ==
    {q \in 1..Len(argv) :
        /\ q \notin Markers
        /\ \A p \in Markers : ~(p < q /\ q <= OwnValueEnd(p))}

FirstMarker == NextMarker(0)

LastMarker == CHOOSE p \in Markers : \A x \in Markers : x <= p

KeylessBefore == {q \in Keyless : q < FirstMarker}

KeylessAfter == {q \in Keyless : Markers # {} /\ q > LastMarker}

\* a key is given when a marker of the command line names it, or when the
\* call paired a positional token with it
GivenByMarker(k) == \E p \in Markers : KeyOf(argv[p]) = k

GivenByPosition(k) ==
    \E j \in 1..Len(m.insert_these) : m.insert_these[j][2] = k

\* the value the command line gives for the marker at position w of the
\* line args, for a key of type t
ValueAfter(args, w, t) ==
    LET after == {q \in Range(KeyIndices(args)) : q > w}
        nxt == IF after = {} THEN Len(args) + 1
               ELSE CHOOSE q \in after : \A x \in after : q <= x
    IN  IF t = "list"
        THEN [t |-> "list", n |-> 0, s |-> <<>>,
              items |-> [x \in 1..(nxt - 1 - w) |-> StrV(args[w + x])]]
        ELSE IF nxt = w + 1 THEN ViewVal(BoolV(TRUE), <<>>)
        ELSE IF t = "bool" THEN ViewVal(BoolV(args[w + 1] = T_1), <<>>)
        ELSE ViewVal(Cast(t, args[w + 1]).v, <<>>)

\* the explicit value of a given key: the one of its last marker, in the
\* line with the positional keys written out
ExplicitValue(k) ==
    LET mine == {w \in Range(KeyIndices(m.arglist)) :
                    KeyOf(m.arglist[w]) = k}
        w == CHOOSE x \in mine : \A y \in mine : y <= x
    IN  ValueAfter(m.arglist, w, TypeOf(m.default_opt, k))

\* the keys of the caller's schema, and the builtin ones
SchemaKeys == DOMAIN Scenario(cfg).default_opt \cup {K_h, K_print_opt}

\* the default of a key as the caller wrote it
SchemaDefault(k) ==
    IF k \in DOMAIN Scenario(cfg).default_opt
    THEN ViewVal(Scenario(cfg).default_opt[k], Scenario(cfg).heap)
    ELSE ViewVal(BoolV(FALSE), <<>>)

C3_BeforeAndAfterIsFatal ==
    (Ended(m) /\ KeylessBefore # {} /\ KeylessAfter # {}) =>
        m.pc = "raised" /\ IsCommandLineError(m.err)

C3_Witness ==
    /\ m.pc = "raised"
    /\ m.err = "positional before and after"
    /\ m.tolerate_extra
    /\ KeylessBefore # {} /\ KeylessAfter # {}

(***************************************************************************)
(* The same caller on another command line, and the places of the tokens   *)
(* of the given line in the line with the positional keys written out.     *)
(***************************************************************************)
\* how the first call of the scenario ends on the command line args
OutcomeOn(args) ==
    Outcome(command_line_options(Scenario(cfg), args, Scenario(cfg).heap,
                                 Scenario(cfg).synonyms))

\* the positions of a set in their order
RECURSIVE Ascending(_)
Ascending(S) ==
    IF S = {} THEN <<>>
    ELSE LET x == CHOOSE y \in S : \A z \in S : y <= z
         IN  <<x>> \o Ascending(S \ {x})

\* the explicit form of the command line, K being the positions of its
\* keyless tokens: the j-th of them preceded by the marker of the j-th
\* positional key
RECURSIVE ExplicitFrom(_, _, _)
ExplicitFrom(K, q, j) ==
    IF q > Len(argv) THEN <<>>
    ELSE IF q \in K
    THEN <<Dash(m.positional_keys[j]), argv[q]>>
         \o ExplicitFrom(K, q + 1, j + 1)
    ELSE <<argv[q]>> \o ExplicitFrom(K, q + 1, j)

Explicit(K) == ExplicitFrom(K, 1, 1)

\* a token cast to the type t of a positional key
CastTo(t, tok) ==
    IF t = "list"
    THEN [t |-> "list", n |-> 0, s |-> <<>>, items |-> <<StrV(tok)>>]
    ELSE IF t = "bool" THEN ViewVal(BoolArg(tok).v, <<>>)
    ELSE ViewVal(Cast(t, tok).v, <<>>)

\* the j-th keyless token is stored under the j-th positional key (unless
\* a marker of the line names that key too)
PositionalsStored(K) ==
    LET order == Ascending(K)
    IN  \A j \in 1..Len(order) :
           LET k == m.positional_keys[j]
           IN  ~GivenByMarker(k) =>
                   /\ k \in DOMAIN m.opt
                   /\ ViewVal(m.opt[k], m.heap) =
                         CastTo(TypeOf(m.default_opt, k), argv[order[j]])

\* keyless tokens in one region only, and no more of them than keys
OneRegion(K) ==
    /\ K # {}
    /\ Cardinality(K) <= Len(m.positional_keys)
    /\ \/ \A q \in K : q < FirstMarker
       \/ Markers # {} /\ \A q \in K : q > LastMarker

LastValueEndAsRead ==
    LET p == LastMarker
        t == TypeOf(m.default_opt, lstrip(argv[p]))
    IN  IF t = "list" THEN Len(argv)
        ELSE IF p = Len(argv) THEN p
        ELSE IF t = "bool" /\ argv[p + 1] \notin {T_0, T_1}
                /\ Len(argv) >= p + 2 THEN p
        ELSE p + 1

\* the keyless tokens, the value of the last marker being read that way
KeylessAsRead ==
    {q \in 1..Len(argv) :
        /\ q \notin Markers
        /\ \A p \in Markers :
              ~(p < q /\ q <= IF p = LastMarker THEN LastValueEndAsRead
                              ELSE OwnValueEnd(p))}

\* no positional key before the one of the last keyless token is a list
NoListKeyBeforeLast(K) ==
    \A j \in 1..(Cardinality(K) - 1) :
        TypeOf(m.default_opt, m.positional_keys[j]) # "list"

InsertedAt ==
    {m.insert_these[j][1] + (j - 1) : j \in 1..Len(m.insert_these)}

\* the place in the given line of the token at place w of that line
OrigPos(w) == w - Cardinality({x \in InsertedAt : x < w})

\* the main loop has stored the value of the marker at m.i
Stored == m.pc \in {"main", "fill"} /\ m.ni > 0

\* the main loop has raised on the value of the marker at m.i
RaisedOnValue ==
    /\ m.pc = "raised"
    /\ m.err \in {"no argument provided", "boolean value", "wrong type"}

\* the marker just read stood in the given line, and its key has type t
JustRead(t) ==
    /\ Stored \/ RaisedOnValue
    /\ m.i \notin InsertedAt
    /\ TypeOf(m.default_opt, m.opt_key) = t

\* the token that follows the marker just read in the given line
Following == argv[OrigPos(m.i) + 1]

NoneFollows ==
    \/ OrigPos(m.i) = Len(argv)
    \/ IsOptionKey(Following)

FollowingIsPositional == m.i + 1 \in InsertedAt

TokensUpToNextMarker ==
    LET p == OrigPos(m.i)
    IN  [x \in 1..(NextMarker(p) - 1 - p) |-> StrV(argv[p + x])]

(***************************************************************************)
(* C5: for a marker whose key, after synonym resolution, is list-typed,    *)
(* the value stored is the sequence of all the tokens from the one after   *)
(* the marker up to the next option marker or the end of the line.         *)
(***************************************************************************)
C5_ListTakesAll ==
    (Stored /\ JustRead("list")) =>
        /\ m.value.t = "list"
        /\ m.heap[m.value.n] = TokensUpToNextMarker

\* the same for the markers written with the schema key
C5_ListTakesAllNoSynonym ==
    (Stored /\ JustRead("list") /\ lstrip(argv[OrigPos(m.i)]) = m.opt_key) =>
        /\ m.value.t = "list"
        /\ m.heap[m.value.n] = TokensUpToNextMarker

\* the command line with the marker at p written with the key a
Rewritten(p, a) == [argv EXCEPT ![p] = Dash(a)]

(***************************************************************************)
(* C6: replacing a marker '-<canonical key>' by '-<alias>', the synonym    *)
(* table mapping the alias to that key, does not change how the call ends: *)
(* the same result mapping, or the same kind of error.                     *)
(***************************************************************************)
C6_SynonymEquivalent ==
    (Ended(m) /\ FirstCall) =>
        \A p \in Markers : \A a \in DOMAIN m.synonyms :
            (m.synonyms[a] = lstrip(argv[p]) /\ argv[p] = Dash(m.synonyms[a]))
                => Outcome(m) = OutcomeOn(Rewritten(p, a))

\* the assignments of the scenario's schema
AllAssignments == Assignments(Scenario(cfg), Len(Scenario(cfg).keys))

\* the call returned the assignment a
Reproduces(a) ==
    /\ m.pc = "returned"
    /\ \A k \in DOMAIN a : k \in DOMAIN m.opt /\ m.opt[k] = a[k]

(***************************************************************************)
(* C7, as claimed: for a schema of scalar defaults and any assignment of a *)
(* value of the matching type to each key, parsing the canonical command   *)
(* line -k1 v1 -k2 v2 ... returns exactly that assignment.                 *)
(***************************************************************************)
C7_AsClaimed ==
    (Ended(m) /\ cfg \in RoundTrips) =>
        \A a \in AllAssignments :
            argv = Canonical(Scenario(cfg), a) => Reproduces(a)

\* no literal of the assignment is an option marker, and the help key is
\* not assigned a true value
Representable(a) ==
    /\ \A k \in DOMAIN a : ~IsOptionKey(Literal(a[k]))
    /\ K_h \in DOMAIN a => ~Truthy(a[K_h], <<>>)

(***************************************************************************)
(* C7, amended: the same for the assignments in which no value has a       *)
(* literal form that is an option marker (a '-' and a letter, without      *)
(* whitespace: the string '-x', the float -inf) and in which the help key  *)
(* h, when it is a key of the schema, is not assigned a true value.        *)
(***************************************************************************)
C7_RoundTrip ==
    (Ended(m) /\ cfg \in RoundTrips) =>
        \A a \in AllAssignments :
            (argv = Canonical(Scenario(cfg), a) /\ Representable(a))
                => Reproduces(a)

C7_Witness ==
    /\ m.pc = "returned"
    /\ cfg = "scalars"
    /\ m.opt[K_b] = BoolV(TRUE)
    /\ m.opt[K_n] = IntV(-12)
    /\ m.opt[K_k] = FloatV(-5)
    /\ m.opt[K_s] = StrV(<<"-","a"," ","b">>)
    /\ argv = Canonical(Scenario(cfg), [k \in DOMAIN Scenario(cfg).default_opt
                                           |-> m.opt[k]])

HelpTokens == {Dash(K_h), Dash(K_help), T_dashdashhelp}

(***************************************************************************)
(* C8: when one of the tokens -h, -help, --help is on the command line,    *)
(* the help message is written and the process exits: the call returns no  *)
(* result.  Stated for the command lines made of that token alone, under   *)
(* a schema that leaves the built-in boolean option h as it is.            *)
(***************************************************************************)
C8_HelpExits ==
    (/\ Ended(m) /\ Len(argv) = 1 /\ argv[1] \in HelpTokens
     /\ K_h \notin Range(Scenario(cfg).keys)) =>
        /\ m.pc = "exited"
        /\ m.out = <<m.help_msg>>

(***************************************************************************)
(* C9: when the help option is given an argument that is a key of          *)
(* advanced_help_msg (-h map), the help message is written, then the text  *)
(* stored under that key, and the process exits without an error.          *)
(***************************************************************************)
C9_AdvancedHelp ==
    (/\ Ended(m)
     /\ Len(argv) = 2
     /\ IsOptionKey(argv[1]) /\ KeyOf(argv[1]) = K_h
     /\ argv[2] \in DOMAIN m.advanced_help_msg) =>
        /\ m.pc = "exited"
        /\ m.out = <<m.help_msg, m.advanced_help_msg[argv[2]]>>

\* the list defaults of the caller's schema, as they are now
SchemaLists(heap) ==
    [k \in {x \in DOMAIN Scenario(cfg).default_opt :
                Scenario(cfg).default_opt[x].t = "list"} |->
        heap[Scenario(cfg).default_opt[k].n]]

\* the results the caller holds that a step changes
Changed(heapBefore, heapAfter) ==
    {r \in 1..Len(held) :
        ViewOpt(held[r], heapBefore) # ViewOpt(held[r], heapAfter)}

(***************************************************************************)
(* C10: the default fill-in gives each result a copy of its own: whatever  *)
(* calls are made and whatever the caller appends to the list values of    *)
(* the results it holds, the list defaults of the schema stay what they    *)
(* were, a change of one result changes no other result, a call changes no *)
(* result held, and a later call with no marker for a list key still       *)
(* returns the schema's default for it.                                    *)
(***************************************************************************)
C10_IndependentCopies ==
    [][/\ SchemaLists(m'.heap) = SchemaLists(Scenario(cfg).heap)
       /\ held' = held =>
             Cardinality(Changed(m.heap, m'.heap))
                <= (IF m.pc = "idle" /\ m'.pc = "idle" THEN 1 ELSE 0)
       /\ m'.pc = "returned" =>
             \A k \in DOMAIN SchemaLists(m'.heap) :
                 ~(\E p \in Range(KeyIndices(argv')) : KeyOf(argv'[p]) = k)
                 /\ ~(\E j \in 1..Len(m'.insert_these) :
                         m'.insert_these[j][2] = k)
                 => m'.heap[m'.opt[k].n] = SchemaLists(Scenario(cfg).heap)[k]
      ]_vars

C10_Witness ==
    /\ cfg = "repeat"
    /\ m.pc = "returned"
    /\ calls = 2
    /\ argv = <<Dash(K_b)>>
    /\ Len(held) = 1
    /\ ViewVal(held[1][K_fl], m.heap).items = <<StrV(T_d), StrV(T_x)>>
    /\ ViewVal(m.opt[K_fl], m.heap).items = <<StrV(T_d)>>

====
